---- MODULE Spec2Model ----
(***************************************************************************)
(* A model of task1.py: the in-memory address book (Field/Phone/Birthday,  *)
(* Record, AddressBook), the input_error decorator and the command         *)
(* handlers of the assistant bot.                                          *)
(*                                                                         *)
(* Python strings are modelled as sequences of characters (one-character   *)
(* TLA+ strings); the fixed message texts are one-element sequences that   *)
(* hold the whole text (the Ukrainian texts are given in English, the      *)
(* source line is named beside each).  A Python exception is a record      *)
(* whose field exc names the exception class ("none": normal return).      *)
(***************************************************************************)
EXTENDS Integers, Sequences, FiniteSets, TLC

VARIABLES
    book,    \* AddressBook.data: the records in insertion order (a dict)
    call,    \* the operation invoked last, with its arguments and the clock
    result,  \* what that operation returned or raised
    track    \* an observer: how far the run has followed the sequences of
             \* operations that C7 and C8 speak of

vars == <<book, call, result, track>>

-----------------------------------------------------------------------------
(* Characters and numbers *)

DigitSeq == <<"0", "1", "2", "3", "4", "5", "6", "7", "8", "9">>

Digits == {DigitSeq[i] : i \in 1..Len(DigitSeq)}

\* str.isdigit on one character
isdigit(ch) == ch \in Digits

DigitVal(ch) == (CHOOSE i \in 1..Len(DigitSeq) : DigitSeq[i] = ch) - 1

DigitChar(n) == DigitSeq[n + 1]

RECURSIVE SeqToNat(_)
\* int() of a string of decimal digits
SeqToNat(s) ==
    IF s = <<>> THEN 0
    ELSE 10 * SeqToNat(SubSeq(s, 1, Len(s) - 1)) + DigitVal(s[Len(s)])

\* "%02d"
Pad2(n) == <<DigitChar((n \div 10) % 10), DigitChar(n % 10)>>

\* "%04d"
Pad4(n) == Pad2(n \div 100) \o Pad2(n % 100)

\* str(n) of a small non-negative integer, as one piece of text
IntText(n) == ToString(n)

-----------------------------------------------------------------------------
(* datetime.date: the proleptic Gregorian calendar *)

IsLeap(y) == (y % 4 = 0) /\ ((y % 100 # 0) \/ (y % 400 = 0))

DaysInMonth(y, m) ==
    IF m = 2 THEN (IF IsLeap(y) THEN 29 ELSE 28)
    ELSE IF m \in {4, 6, 9, 11} THEN 30 ELSE 31

\* date(y, m, d) is constructible (MINYEAR = 1, MAXYEAR = 9999)
IsDate(y, m, d) ==
    /\ y \in 1..9999
    /\ m \in 1..12
    /\ d \in 1..DaysInMonth(y, m)

MkDate(y, m, d) == [y |-> y, m |-> m, d |-> d]

DaysBeforeYear(y) ==
    (y - 1) * 365 + ((y - 1) \div 4) - ((y - 1) \div 100) + ((y - 1) \div 400)

RECURSIVE DaysBeforeMonth(_, _)
DaysBeforeMonth(y, m) ==
    IF m = 1 THEN 0 ELSE DaysBeforeMonth(y, m - 1) + DaysInMonth(y, m - 1)

\* date.toordinal(): dates compare by it
ToOrdinal(dt) == DaysBeforeYear(dt.y) + DaysBeforeMonth(dt.y, dt.m) + dt.d

\* date.weekday(): 0 = Monday ... 5 = Saturday, 6 = Sunday
Weekday(dt) == (ToOrdinal(dt) + 6) % 7

NextDay(dt) ==
    IF dt.d < DaysInMonth(dt.y, dt.m) THEN MkDate(dt.y, dt.m, dt.d + 1)
    ELSE IF dt.m < 12 THEN MkDate(dt.y, dt.m + 1, 1)
    ELSE MkDate(dt.y + 1, 1, 1)

RECURSIVE AddDays(_, _)
\* d + timedelta(days = n), n >= 0
AddDays(dt, n) == IF n <= 0 THEN dt ELSE AddDays(NextDay(dt), n - 1)

\* date.replace(year = y): ValueError when the day does not exist in year y
ReplaceYear(dt, y) ==
    IF IsDate(y, dt.m, dt.d)
    THEN [exc |-> "none", msg |-> <<>>, date |-> MkDate(y, dt.m, dt.d)]
    ELSE [exc |-> "ValueError", msg |-> <<"day is out of range for month">>,
          date |-> dt]

\* date.strftime("%d.%m.%Y")
strftime(dt) == Pad2(dt.d) \o <<".">> \o Pad2(dt.m) \o <<".">> \o Pad4(dt.y)

DotPos(s) == {i \in 1..Len(s) : s[i] = "."}

AllDigits(s) == \A i \in 1..Len(s) : isdigit(s[i])

\* datetime.strptime(value, "%d.%m.%Y").date(): one or two digits, a dot, one or
\* two digits, a dot, four digits, naming a real calendar date
strptime(s) ==
    LET bad == [exc |-> "ValueError", msg |-> <<"strptime">>, date |-> MkDate(0, 0, 0)]
    IN  IF Cardinality(DotPos(s)) # 2 THEN bad
        ELSE
            LET i1 == CHOOSE i \in DotPos(s) : \A j \in DotPos(s) : i <= j
                i2 == CHOOSE i \in DotPos(s) : \A j \in DotPos(s) : j <= i
                fd == SubSeq(s, 1, i1 - 1)
                fm == SubSeq(s, i1 + 1, i2 - 1)
                fy == SubSeq(s, i2 + 1, Len(s))
            IN  IF /\ AllDigits(fd) /\ AllDigits(fm) /\ AllDigits(fy)
                   /\ Len(fd) \in 1..2 /\ Len(fm) \in 1..2 /\ Len(fy) = 4
                   /\ IsDate(SeqToNat(fy), SeqToNat(fm), SeqToNat(fd))
                THEN [exc |-> "none", msg |-> <<>>,
                      date |-> MkDate(SeqToNat(fy), SeqToNat(fm), SeqToNat(fd))]
                ELSE bad

-----------------------------------------------------------------------------
(* Fields *)

\* Phone.__init__ requires exactly this many digits
PhoneLen == 10

\* task1.py:30 "Номер телефону має складатися рівно з 10 цифр."
MsgPhoneFormat == <<"The phone number must consist of exactly 10 digits.">>

\* task1.py:43
MsgDateFormat == <<"Invalid date format. Use DD.MM.YYYY">>

\* task1.py:81 "Цього номеру немає у контакті."
MsgPhoneAbsent == <<"The contact has no such number.">>

\* task1.py:90 "Старий номер не знайдено у контакті."
MsgOldPhoneAbsent == <<"The old number was not found in the contact.">>

\* task1.py:97 "День народження вже задано для цього контакту."
MsgBirthdaySet == <<"The birthday is already set for this contact.">>

\* task1.py:124 "Контакт з таким іменем не знайдено."
MsgNoSuchName == <<"No contact with this name was found.">>

\* Phone(value): keeps the digits, needs exactly PhoneLen of them
Phone(value) ==
    LET cleaned == SelectSeq(value, isdigit)
    IN  IF Len(cleaned) # PhoneLen
        THEN [exc |-> "ValueError", msg |-> MsgPhoneFormat, value |-> <<>>]
        ELSE [exc |-> "none", msg |-> <<>>, value |-> cleaned]

NoField == [value |-> <<>>, date |-> MkDate(0, 0, 0)]

\* Birthday(value): the parsed date and its zero-padded text
Birthday(value) ==
    LET p == strptime(value)
    IN  IF p.exc # "none"
        THEN [exc |-> "ValueError", msg |-> MsgDateFormat, field |-> NoField]
        ELSE [exc |-> "none", msg |-> <<>>,
              field |-> [value |-> strftime(p.date), date |-> p.date]]

-----------------------------------------------------------------------------
(* Record: a name, the phones in insertion order, an optional birthday     *)
(* (a sequence of at most one Birthday field)                              *)

Record(name) == [name |-> name, phones |-> <<>>, birthday |-> <<>>]

\* any(ph.value == v for ph in rec.phones)
HasPhone(rec, v) == \E i \in 1..Len(rec.phones) : rec.phones[i] = v

\* the first index holding v (the for loops return at the first match)
FirstIndex(phones, v) ==
    CHOOSE i \in 1..Len(phones) :
        /\ phones[i] = v
        /\ \A j \in 1..(i - 1) : phones[j] # v

\* del phones[i]
DelAt(phones, i) == SubSeq(phones, 1, i - 1) \o SubSeq(phones, i + 1, Len(phones))

\* add_phone without its test for a number the record holds already
rec_add_phone_appending(rec, phone) ==
    LET p == Phone(phone)
    IN  IF p.exc # "none" THEN [exc |-> p.exc, msg |-> p.msg, rec |-> rec]
        ELSE [exc |-> "none", msg |-> <<>>,
              rec |-> [rec EXCEPT !.phones = Append(@, p.value)]]

\* Record.add_phone
rec_add_phone(rec, phone) ==
    LET p == Phone(phone)
    IN  IF p.exc # "none" THEN [exc |-> p.exc, msg |-> p.msg, rec |-> rec]
        ELSE IF HasPhone(rec, p.value) THEN [exc |-> "none", msg |-> <<>>, rec |-> rec]
        ELSE [exc |-> "none", msg |-> <<>>,
              rec |-> [rec EXCEPT !.phones = Append(@, p.value)]]

\* Record.remove_phone
rec_remove_phone(rec, phone) ==
    LET p == Phone(phone)
    IN  IF p.exc # "none" THEN [exc |-> p.exc, msg |-> p.msg, rec |-> rec]
        ELSE IF HasPhone(rec, p.value)
        THEN [exc |-> "none", msg |-> <<>>,
              rec |-> [rec EXCEPT !.phones = DelAt(@, FirstIndex(@, p.value))]]
        ELSE [exc |-> "ValueError", msg |-> MsgPhoneAbsent, rec |-> rec]

\* edit_phone that drops the old number and appends the new one
rec_edit_phone_moving(rec, old, new) ==
    LET o == Phone(old)
        n == Phone(new)
    IN  IF o.exc # "none" THEN [exc |-> o.exc, msg |-> o.msg, rec |-> rec]
        ELSE IF n.exc # "none" THEN [exc |-> n.exc, msg |-> n.msg, rec |-> rec]
        ELSE IF HasPhone(rec, o.value)
        THEN [exc |-> "none", msg |-> <<>>,
              rec |-> [rec EXCEPT !.phones =
                           Append(DelAt(@, FirstIndex(@, o.value)), n.value)]]
        ELSE [exc |-> "ValueError", msg |-> MsgOldPhoneAbsent, rec |-> rec]

\* Record.edit_phone
rec_edit_phone(rec, old, new) ==
    LET o == Phone(old)
        n == Phone(new)
    IN  IF o.exc # "none" THEN [exc |-> o.exc, msg |-> o.msg, rec |-> rec]
        ELSE IF n.exc # "none" THEN [exc |-> n.exc, msg |-> n.msg, rec |-> rec]
        ELSE IF HasPhone(rec, o.value)
        THEN [exc |-> "none", msg |-> <<>>,
              rec |-> [rec EXCEPT !.phones[FirstIndex(rec.phones, o.value)] = n.value]]
        ELSE [exc |-> "ValueError", msg |-> MsgOldPhoneAbsent, rec |-> rec]

\* add_birthday that overwrites a birthday already set
rec_add_birthday_overwriting(rec, birthday_str) ==
    LET b == Birthday(birthday_str)
    IN  IF b.exc # "none" THEN [exc |-> b.exc, msg |-> b.msg, rec |-> rec]
        ELSE [exc |-> "none", msg |-> <<>>,
              rec |-> [rec EXCEPT !.birthday = <<b.field>>]]

\* Record.add_birthday
rec_add_birthday(rec, birthday_str) ==
    IF rec.birthday # <<>>
    THEN [exc |-> "ValueError", msg |-> MsgBirthdaySet, rec |-> rec]
    ELSE
        LET b == Birthday(birthday_str)
        IN  IF b.exc # "none" THEN [exc |-> b.exc, msg |-> b.msg, rec |-> rec]
            ELSE [exc |-> "none", msg |-> <<>>,
                  rec |-> [rec EXCEPT !.birthday = <<b.field>>]]

-----------------------------------------------------------------------------
(* AddressBook: a dict, modelled as the sequence of its records in         *)
(* insertion order (the keys are the records' names)                       *)

Names(bk) == {bk[i].name : i \in 1..Len(bk)}

\* the position of the record that AddressBook.find returns, 0 for None
find(bk, name) ==
    IF name \in Names(bk) THEN CHOOSE i \in 1..Len(bk) : bk[i].name = name ELSE 0

\* AddressBook.add_record: data[name] = record (a key that exists keeps its place)
add_record(bk, rec) ==
    IF find(bk, rec.name) = 0 THEN Append(bk, rec)
    ELSE [bk EXCEPT ![find(bk, rec.name)] = rec]

\* AddressBook.delete
delete(bk, name) ==
    IF find(bk, name) # 0
    THEN [exc |-> "none", msg |-> <<>>,
          book |-> SubSeq(bk, 1, find(bk, name) - 1)
                       \o SubSeq(bk, find(bk, name) + 1, Len(bk))]
    ELSE [exc |-> "KeyError", msg |-> MsgNoSuchName, book |-> bk]

\* _shift_if_weekend that moves a Saturday by one day only
shift_if_weekend_short(dt) ==
    IF Weekday(dt) \in {5, 6} THEN AddDays(dt, 1) ELSE dt

\* AddressBook._shift_if_weekend
shift_if_weekend(dt) ==
    IF Weekday(dt) = 5 THEN AddDays(dt, 2)
    ELSE IF Weekday(dt) = 6 THEN AddDays(dt, 1)
    ELSE dt

\* the sort key of get_upcoming_birthdays: the entry's text parsed back to a date
EntryKey(e) == ToOrdinal(strptime(e.birthday).date)

RECURSIVE InsertByKey(_, _)
\* e placed behind every entry whose key is not larger (list.sort is stable)
InsertByKey(sorted, e) ==
    IF sorted = <<>> THEN <<e>>
    ELSE IF EntryKey(sorted[Len(sorted)]) <= EntryKey(e) THEN Append(sorted, e)
    ELSE Append(InsertByKey(SubSeq(sorted, 1, Len(sorted) - 1), e), sorted[Len(sorted)])

RECURSIVE SortEntries(_)
SortEntries(list) ==
    IF list = <<>> THEN <<>>
    ELSE InsertByKey(SortEntries(SubSeq(list, 1, Len(list) - 1)), list[Len(list)])

RECURSIVE upcoming_loop(_, _, _, _)
\* the for loop of get_upcoming_birthdays over the records left, acc the result so far
upcoming_loop(recs, today, end_date, acc) ==
    IF recs = <<>> THEN [exc |-> "none", msg |-> <<>>, list |-> acc]
    ELSE
        LET rec  == Head(recs)
            rest == Tail(recs)
        IN  IF rec.birthday = <<>> THEN upcoming_loop(rest, today, end_date, acc)
            ELSE
                LET r1 == ReplaceYear(rec.birthday[1].date, today.y)
                IN  IF r1.exc # "none" THEN [exc |-> r1.exc, msg |-> r1.msg, list |-> <<>>]
                    ELSE
                        LET r2 == IF ToOrdinal(r1.date) < ToOrdinal(today)
                                  THEN ReplaceYear(r1.date, today.y + 1)
                                  ELSE r1
                        IN  IF r2.exc # "none"
                            THEN [exc |-> r2.exc, msg |-> r2.msg, list |-> <<>>]
                            ELSE IF /\ ToOrdinal(today) <= ToOrdinal(r2.date)
                                    /\ ToOrdinal(r2.date) <= ToOrdinal(end_date)
                            THEN upcoming_loop(rest, today, end_date,
                                     Append(acc, [name |-> rec.name,
                                                  birthday |-> strftime(shift_if_weekend(r2.date))]))
                            ELSE upcoming_loop(rest, today, end_date, acc)

\* AddressBook.get_upcoming_birthdays(days), today being date.today()
get_upcoming_birthdays(bk, days, today) ==
    LET r == upcoming_loop(bk, today, AddDays(today, days - 1), <<>>)
    IN  IF r.exc # "none" THEN r
        ELSE [exc |-> "none", msg |-> <<>>, list |-> SortEntries(r.list)]

-----------------------------------------------------------------------------
(* Text helpers *)

RECURSIVE Join(_, _)
\* sep.join(parts)
Join(parts, sep) ==
    IF parts = <<>> THEN <<>>
    ELSE IF Len(parts) = 1 THEN parts[1]
    ELSE Join(SubSeq(parts, 1, Len(parts) - 1), sep) \o sep \o parts[Len(parts)]

\* the characters of the names in code point order
CodeOrder == <<"A", "B", "J", "a", "b", "h", "n", "o">>

Ord(ch) == CHOOSE i \in 1..Len(CodeOrder) : CodeOrder[i] = ch

RECURSIVE StrLess(_, _)
\* a < b on Python strings
StrLess(a, b) ==
    IF b = <<>> THEN FALSE
    ELSE IF a = <<>> THEN TRUE
    ELSE IF a[1] # b[1] THEN Ord(a[1]) < Ord(b[1])
    ELSE StrLess(Tail(a), Tail(b))

RECURSIVE InsertName(_, _)
InsertName(sorted, n) ==
    IF sorted = <<>> THEN <<n>>
    ELSE IF StrLess(n, sorted[Len(sorted)])
    THEN Append(InsertName(SubSeq(sorted, 1, Len(sorted) - 1), n), sorted[Len(sorted)])
    ELSE Append(sorted, n)

RECURSIVE SortNames(_)
\* sorted(names)
SortNames(names) ==
    IF names = <<>> THEN <<>>
    ELSE InsertName(SortNames(SubSeq(names, 1, Len(names) - 1)), names[Len(names)])

\* strftime("%A")
DayName(dt) ==
    <<"Monday", "Tuesday", "Wednesday", "Thursday", "Friday", "Saturday", "Sunday">>[Weekday(dt) + 1]

\* the placeholder of show_all for no phones and no birthday (an em dash)
Dash == <<"-">>

-----------------------------------------------------------------------------
(* input_error and the command handlers.  A handler's body yields          *)
(* [exc, msg, ret, book]: the exception it raised (msg its text) or the    *)
(* string it returned, and the address book as the body left it.           *)

\* task1.py:182 "Недостатньо аргументів для команди."
MsgFewArgs == <<"Not enough arguments for the command.">>

\* task1.py:184 "Не знайдено."
MsgNotFound == <<"Not found.">>

\* task1.py:189 "Сталася помилка: "
MsgFailed == <<"An error occurred: ">>

\* task1.py:227, 237, 274 "Контакт не знайдено."
MsgNoContact == <<"Contact not found.">>

\* task1.py:239 "У контакту немає телефонів."
MsgNoPhones == <<"The contact has no phones.">>

\* task1.py:246 "Адресна книга порожня."
MsgEmptyBook == <<"The address book is empty.">>

\* task1.py:276 "Для цього контакту не задано дня народження."
MsgNoBirthday == <<"No birthday is set for this contact.">>

\* task1.py:285 "Найближчими 7 днями іменин немає."
MsgNoUpcoming == <<"No birthdays in the next 7 days.">>

Return(ret, bk) == [exc |-> "none", msg |-> <<>>, ret |-> ret, book |-> bk]

Raise(exc, msg, bk) == [exc |-> exc, msg |-> msg, ret |-> <<>>, book |-> bk]

\* a, b, *_ = args with fewer than `need` items
UnpackError(need, args, bk) ==
    Raise("ValueError",
          <<"not enough values to unpack (expected at least ", IntText(need),
            ", got ", IntText(Len(args)), ")">>,
          bk)

\* the classes derived from Exception that the bodies can raise
ExceptionClasses == {"IndexError", "KeyError", "ValueError"}

\* str(e) of a KeyError is the repr of its argument; of the others, the text
StrOf(r) == IF r.exc = "KeyError" THEN <<"'">> \o r.msg \o <<"'">> ELSE r.msg

\* input_error without its ValueError and Exception clauses
input_error_narrow(r) ==
    IF r.exc = "none" THEN r
    ELSE IF r.exc = "IndexError" THEN Return(MsgFewArgs, r.book)
    ELSE IF r.exc = "KeyError"
    THEN Return(IF StrOf(r) # <<>> THEN StrOf(r) ELSE MsgNotFound, r.book)
    ELSE r

\* input_error's wrapper around a body's outcome r
input_error(r) ==
    IF r.exc = "none" THEN r
    ELSE IF r.exc = "IndexError" THEN Return(MsgFewArgs, r.book)
    ELSE IF r.exc = "KeyError"
    THEN Return(IF StrOf(r) # <<>> THEN StrOf(r) ELSE MsgNotFound, r.book)
    ELSE IF r.exc = "ValueError" THEN Return(StrOf(r), r.book)
    ELSE IF r.exc \in ExceptionClasses THEN Return(MsgFailed \o StrOf(r), r.book)
    ELSE r

\* the body of add_contact
add_contact_fn(args, bk) ==
    IF Len(args) < 2 THEN UnpackError(2, args, bk)
    ELSE
        LET name    == args[1]
            phone   == args[2]
            isNew   == find(bk, name) = 0
            bk1     == IF isNew THEN add_record(bk, Record(name)) ELSE bk
            message == IF isNew THEN <<"Contact added.">> ELSE <<"Contact updated.">>
            i       == find(bk1, name)
        IN  IF phone # <<>>
            THEN LET r == rec_add_phone(bk1[i], phone)
                 IN  IF r.exc # "none" THEN Raise(r.exc, r.msg, bk1)
                     ELSE Return(message, [bk1 EXCEPT ![i] = r.rec])
            ELSE Return(message, bk1)

add_contact(args, bk) == input_error(add_contact_fn(args, bk))

\* change_phone that creates the contact it does not find
change_phone_fn_creating(args, bk) ==
    IF Len(args) < 3 THEN UnpackError(3, args, bk)
    ELSE
        LET bk1 == IF find(bk, args[1]) = 0 THEN add_record(bk, Record(args[1])) ELSE bk
            i   == find(bk1, args[1])
            r   == rec_edit_phone(bk1[i], args[2], args[3])
        IN  IF r.exc # "none" THEN Raise(r.exc, r.msg, bk1)
            ELSE Return(<<"Phone changed.">>, [bk1 EXCEPT ![i] = r.rec])

\* the body of change_phone
change_phone_fn(args, bk) ==
    IF Len(args) < 3 THEN UnpackError(3, args, bk)
    ELSE
        LET i == find(bk, args[1])
        IN  IF i = 0 THEN Raise("KeyError", MsgNoContact, bk)
            ELSE LET r == rec_edit_phone(bk[i], args[2], args[3])
                 IN  IF r.exc # "none" THEN Raise(r.exc, r.msg, bk)
                     ELSE Return(<<"Phone changed.">>, [bk EXCEPT ![i] = r.rec])

change_phone(args, bk) == input_error(change_phone_fn(args, bk))

\* the body of show_phone
show_phone_fn(args, bk) ==
    IF Len(args) < 1 THEN UnpackError(1, args, bk)
    ELSE
        LET i == find(bk, args[1])
        IN  IF i = 0 THEN Raise("KeyError", MsgNoContact, bk)
            ELSE IF bk[i].phones = <<>> THEN Return(MsgNoPhones, bk)
            ELSE Return(Join(bk[i].phones, <<", ">>), bk)

show_phone(args, bk) == input_error(show_phone_fn(args, bk))

\* one line of show_all
AllLine(rec) ==
    rec.name \o <<": ">>
        \o (IF rec.phones # <<>> THEN Join(rec.phones, <<", ">>) ELSE Dash)
        \o <<"; birthday: ">>
        \o (IF rec.birthday # <<>> THEN rec.birthday[1].value ELSE Dash)

\* the body of show_all
show_all_fn(args, bk) ==
    IF bk = <<>> THEN Return(MsgEmptyBook, bk)
    ELSE Return(Join([i \in 1..Len(bk) |-> AllLine(bk[i])], <<"\n">>), bk)

show_all(args, bk) == input_error(show_all_fn(args, bk))

\* add_birthday that refuses a contact it does not find
add_birthday_fn_refusing(args, bk) ==
    IF Len(args) < 2 THEN UnpackError(2, args, bk)
    ELSE
        LET i == find(bk, args[1])
        IN  IF i = 0 THEN Raise("KeyError", MsgNoContact, bk)
            ELSE LET r == rec_add_birthday(bk[i], args[2])
                 IN  IF r.exc # "none" THEN Raise(r.exc, r.msg, bk)
                     ELSE Return(<<"Birthday added.">>, [bk EXCEPT ![i] = r.rec])

\* the body of add_birthday
add_birthday_fn(args, bk) ==
    IF Len(args) < 2 THEN UnpackError(2, args, bk)
    ELSE
        LET name == args[1]
            bk1  == IF find(bk, name) = 0 THEN add_record(bk, Record(name)) ELSE bk
            i    == find(bk1, name)
            r    == rec_add_birthday(bk1[i], args[2])
        IN  IF r.exc # "none" THEN Raise(r.exc, r.msg, bk1)
            ELSE Return(<<"Birthday added.">>, [bk1 EXCEPT ![i] = r.rec])

add_birthday(args, bk) == input_error(add_birthday_fn(args, bk))

\* the body of show_birthday
show_birthday_fn(args, bk) ==
    IF Len(args) < 1 THEN UnpackError(1, args, bk)
    ELSE
        LET i == find(bk, args[1])
        IN  IF i = 0 THEN Raise("KeyError", MsgNoContact, bk)
            ELSE IF bk[i].birthday = <<>> THEN Return(MsgNoBirthday, bk)
            ELSE Return(bk[i].birthday[1].value, bk)

show_birthday(args, bk) == input_error(show_birthday_fn(args, bk))

RECURSIVE DateKeys(_)
\* the keys of by_date, in the order setdefault created them
DateKeys(upcoming) ==
    IF upcoming = <<>> THEN <<>>
    ELSE LET before == DateKeys(SubSeq(upcoming, 1, Len(upcoming) - 1))
             d      == upcoming[Len(upcoming)].birthday
         IN  IF \E i \in 1..Len(before) : before[i] = d THEN before ELSE Append(before, d)

\* by_date[d]: the names greeted on d, in the order of upcoming
NamesOn(upcoming, d) ==
    LET hits == SelectSeq(upcoming, LAMBDA e : e.birthday = d)
    IN  [i \in 1..Len(hits) |-> hits[i].name]

\* one line of birthdays
BirthdayLine(upcoming, d) ==
    d \o <<" (">> \o <<DayName(strptime(d).date)>> \o <<"): ">>
      \o Join(SortNames(NamesOn(upcoming, d)), <<", ">>)

\* the body of birthdays, today being date.today()
birthdays_fn(args, bk, today) ==
    LET u == get_upcoming_birthdays(bk, 7, today)
    IN  IF u.exc # "none" THEN Raise(u.exc, u.msg, bk)
        ELSE IF u.list = <<>> THEN Return(MsgNoUpcoming, bk)
        ELSE
            LET keys  == DateKeys(u.list)
                dated == SortEntries([i \in 1..Len(keys) |-> [name |-> <<>>, birthday |-> keys[i]]])
            IN  Return(Join([i \in 1..Len(dated) |-> BirthdayLine(u.list, dated[i].birthday)],
                            <<"\n">>),
                       bk)

birthdays(args, bk, today) == input_error(birthdays_fn(args, bk, today))

-----------------------------------------------------------------------------
(* The inputs the model draws from *)

\* the longest argument list a command is given
MaxArgs == 3

\* the widest window get_upcoming_birthdays is asked for
MaxDays == 7

\* the longest phone list a record is let grow to by the commands
MaxPhones == 2

\* the longest phone list a record is let grow to by direct calls
MaxListLen == 3

Ann == <<"A", "n", "n">>

John == <<"J", "o", "h", "n">>

NameTokens == {Ann, John}

PhoneA == <<"1", "2", "3", "4", "5", "6", "7", "8", "9", "0">>

PhoneB == <<"0", "9", "8", "7", "6", "5", "4", "3", "2", "1">>

\* PhoneA in another spelling
PhoneADashed == <<"1", "2", "3", "-", "4", "5", "6", "-", "7", "8", "9", "0">>

\* too few digits
PhoneShort == <<"1", "2", "3", "4", "5">>

\* the empty string (add_contact tests `if phone`)
PhoneTokens == {PhoneA, PhoneB, PhoneADashed, PhoneShort, <<>>}

\* 05.01.1990: its 2025 occurrence is a Sunday
DateSun == <<"0", "5", ".", "0", "1", ".", "1", "9", "9", "0">>

\* the same day without the leading zeros
DateSunBare == <<"5", ".", "1", ".", "1", "9", "9", "0">>

\* 04.01.2000: its 2025 occurrence is a Saturday
DateSat == <<"0", "4", ".", "0", "1", ".", "2", "0", "0", "0">>

\* 31.12.1999: its 2024 occurrence is a Tuesday
DateEve == <<"3", "1", ".", "1", "2", ".", "1", "9", "9", "9">>

\* 29.02.2024: a leap day
DateLeap == <<"2", "9", ".", "0", "2", ".", "2", "0", "2", "4">>

\* 29.02.2023: no such day
DateNoLeap == <<"2", "9", ".", "0", "2", ".", "2", "0", "2", "3">>

\* 1990-01-05: another format
DateIso == <<"1", "9", "9", "0", "-", "0", "1", "-", "0", "5">>

DateTokens == {DateSun, DateSunBare, DateSat, DateEve, DateLeap, DateNoLeap, DateIso}

\* a token beyond the ones a command reads
ExtraTokens == {<<"x">>}

Tokens == NameTokens \cup PhoneTokens \cup DateTokens \cup ExtraTokens

\* the values date.today() takes
Todays ==
    { MkDate(2025, 1, 1),    \* a Wednesday
      MkDate(2024, 12, 30),  \* a Monday, the window runs into the next year
      MkDate(2025, 1, 4),    \* a Saturday
      MkDate(2025, 1, 6),    \* a Monday
      MkDate(2024, 2, 25),   \* before the leap day of a leap year
      MkDate(2024, 3, 1) }   \* behind it

NoDate == MkDate(0, 0, 0)

\* the argument lists of at most MaxArgs tokens whose i-th token is drawn from
\* cols[i], and from ExtraTokens beyond the columns
ArgLists(cols) ==
    UNION { { a \in [1..k -> Tokens] :
                \A i \in 1..k :
                    a[i] \in (IF i <= Len(cols) THEN cols[i] ELSE ExtraTokens) }
            : k \in 0..MaxArgs }

AddArgs == ArgLists(<<NameTokens, PhoneTokens>>)

ChangeArgs == ArgLists(<<NameTokens, PhoneTokens \ {<<>>}, PhoneTokens \ {<<>>}>>)

NameArgs == ArgLists(<<NameTokens>>)

NoArgs == ArgLists(<<>>)

\* the dates the add-birthday command is given
CmdDateTokens == {DateSun, DateSunBare, DateLeap, DateNoLeap, DateIso}

BirthdayArgs == ArgLists(<<NameTokens, CmdDateTokens>>)

-----------------------------------------------------------------------------
(* The scripted sequences the runs are followed along *)

Off == [stage |-> 0, name |-> <<>>, p1 |-> <<>>, p2 |-> <<>>, snap |-> <<>>]

\* a phone given as exactly ten digits
IsTenDigits(s) == Len(s) = PhoneLen /\ AllDigits(s)

\* add(name, p1); phone(name); change(name, p1, p2); phone(name), the add on a
\* book without name: the stage the command c reaches, bk being the book before it
ScenarioStep(t, c, bk) ==
    IF c.op = "add" /\ Len(c.args) = 2 /\ find(bk, c.args[1]) = 0 /\ IsTenDigits(c.args[2])
    THEN [stage |-> 1, name |-> c.args[1], p1 |-> c.args[2], p2 |-> <<>>, snap |-> <<>>]
    ELSE IF t.stage \in {1, 3} /\ c.op = "phone" /\ c.args = <<t.name>>
    THEN [t EXCEPT !.stage = @ + 1]
    ELSE IF /\ t.stage = 2 /\ c.op = "change" /\ Len(c.args) = 3
            /\ c.args[1] = t.name /\ c.args[2] = t.p1 /\ IsTenDigits(c.args[3])
    THEN [t EXCEPT !.stage = 3, !.p2 = c.args[3]]
    ELSE Off

\* add_phone(raw) on a record and then add_phone of the same digits on it: the
\* stage the call c reaches, bk being the book after it
TwiceStep(t, c, exc, bk) ==
    IF c.op = "Record.add_phone" /\ Phone(c.args[2]).exc = "none"
    THEN IF t.stage \in {1, 2} /\ t.name = c.args[1] /\ t.p1 = Phone(c.args[2]).value
         THEN [t EXCEPT !.stage = 2]
         ELSE IF exc = "none"
         THEN [stage |-> 1, name |-> c.args[1], p1 |-> Phone(c.args[2]).value,
               p2 |-> <<>>, snap |-> bk[find(bk, c.args[1])].phones]
         ELSE Off
    ELSE Off

-----------------------------------------------------------------------------
(* The state machine *)

Idle == [op |-> "idle", args |-> <<>>, days |-> 0, today |-> NoDate]

NoResult == [exc |-> "none", val |-> <<>>, list |-> <<>>]

Init ==
    /\ book = <<>>
    /\ call = Idle
    /\ result = NoResult
    /\ track = Off

\* no record of bk holds more than max phones
Bounded(bk, max) == \A i \in 1..Len(bk) : Len(bk[i].phones) <= max

\* the caller turns to its next operation (main: the loop is back at input())
Prompt ==
    /\ call # Idle
    /\ call' = Idle
    /\ result' = NoResult
    /\ UNCHANGED <<book, track>>

\* main's print(handler(args, book)): r is what the decorated handler yields
Command(op, args, today, r) ==
    LET c == [op |-> op, args |-> args, days |-> 0, today |-> today]
    IN  /\ Bounded(r.book, MaxPhones)
        /\ book' = r.book
        /\ call' = c
        /\ result' = [exc |-> r.exc, val |-> r.ret, list |-> <<>>]
        /\ track' = ScenarioStep(track, c, book)

CmdAdd ==
    /\ call = Idle
    /\ \E args \in AddArgs :
           Command("add", args, NoDate, add_contact(args, book))

CmdChange ==
    /\ call = Idle
    /\ \E args \in ChangeArgs :
           Command("change", args, NoDate, change_phone(args, book))

CmdPhone ==
    /\ call = Idle
    /\ \E args \in NameArgs :
           Command("phone", args, NoDate, show_phone(args, book))

CmdAll ==
    /\ call = Idle
    /\ \E args \in NoArgs :
           Command("all", args, NoDate, show_all(args, book))

CmdAddBirthday ==
    /\ call = Idle
    /\ \E args \in BirthdayArgs :
           Command("add-birthday", args, NoDate, add_birthday(args, book))

CmdShowBirthday ==
    /\ call = Idle
    /\ \E args \in NameArgs :
           Command("show-birthday", args, NoDate, show_birthday(args, book))

CmdBirthdays ==
    /\ call = Idle
    /\ \E args \in NoArgs, today \in Todays :
           Command("birthdays", args, today, birthdays(args, book, today))

Next ==
    \/ CmdAdd
    \/ CmdChange
    \/ CmdPhone
    \/ CmdAll
    \/ CmdAddBirthday
    \/ CmdShowBirthday
    \/ CmdBirthdays
    \/ Prompt

\* the command loop of main
Spec == Init /\ [][Next]_vars

\* a direct call of a method: bk is the book behind it, exc and msg what it raised
Method(op, args, days, today, bk, exc, msg, list) ==
    LET c == [op |-> op, args |-> args, days |-> days, today |-> today]
    IN  /\ Bounded(bk, MaxListLen)
        /\ book' = bk
        /\ call' = c
        /\ result' = [exc |-> exc, val |-> msg, list |-> list]
        /\ track' = TwiceStep(track, c, exc, bk)

\* book.add_record(Record(name))
ApiAddRecord ==
    /\ call = Idle
    /\ \E name \in NameTokens :
           Method("AddressBook.add_record", <<name>>, 0, NoDate,
                  add_record(book, Record(name)), "none", <<>>, <<>>)

\* book.delete(name)
ApiDelete ==
    /\ call = Idle
    /\ \E name \in NameTokens :
           LET r == delete(book, name)
           IN  Method("AddressBook.delete", <<name>>, 0, NoDate, r.book, r.exc, r.msg, <<>>)

\* a method of the record book.find(name) returned: r is its outcome
OnRecord(op, args, r) ==
    Method(op, args, 0, NoDate, [book EXCEPT ![find(book, args[1])] = r.rec],
           r.exc, r.msg, <<>>)

ApiAddPhone ==
    /\ call = Idle
    /\ \E name \in Names(book), phone \in PhoneTokens :
           OnRecord("Record.add_phone", <<name, phone>>,
                    rec_add_phone(book[find(book, name)], phone))

ApiRemovePhone ==
    /\ call = Idle
    /\ \E name \in Names(book), phone \in PhoneTokens :
           OnRecord("Record.remove_phone", <<name, phone>>,
                    rec_remove_phone(book[find(book, name)], phone))

ApiEditPhone ==
    /\ call = Idle
    /\ \E name \in Names(book), old \in PhoneTokens, new \in PhoneTokens :
           OnRecord("Record.edit_phone", <<name, old, new>>,
                    rec_edit_phone(book[find(book, name)], old, new))

ApiAddBirthday ==
    /\ call = Idle
    /\ \E name \in Names(book), raw \in DateTokens :
           OnRecord("Record.add_birthday", <<name, raw>>,
                    rec_add_birthday(book[find(book, name)], raw))

\* book.get_upcoming_birthdays(days)
ApiUpcoming ==
    /\ call = Idle
    /\ \E days \in 1..MaxDays, today \in Todays :
           LET r == get_upcoming_birthdays(book, days, today)
           IN  Method("AddressBook.get_upcoming_birthdays", <<>>, days, today,
                      book, r.exc, r.msg, r.list)

RecordNext ==
    \/ ApiAddRecord
    \/ ApiAddPhone
    \/ ApiRemovePhone
    \/ ApiEditPhone
    \/ Prompt

\* Record's phone methods called directly, on the records of a book
RecordSpec == Init /\ [][RecordNext]_vars

BookNext ==
    \/ ApiAddRecord
    \/ ApiDelete
    \/ ApiAddBirthday
    \/ ApiUpcoming
    \/ Prompt

\* AddressBook's methods and Record.add_birthday called directly
BookSpec == Init /\ [][BookNext]_vars

-----------------------------------------------------------------------------
(* The claims *)

\* the text a handler returns for a contact it does not find: str(KeyError(...))
NotFoundText == <<"'">> \o MsgNoContact \o <<"'">>

\* C1: whatever the directory and the argument list, a command handler returns a
\* string: no exception escapes it to the dispatcher.
C1_NoErrorEscapes ==
    call # Idle => (result.exc = "none" /\ result.val # <<>>)

\* C1's case: the birthdays command on a book with a leap-day birthday, whose
\* ValueError inside get_upcoming_birthdays came back as a message
C1_Witness ==
    /\ call.op = "birthdays"
    /\ result.exc = "none"
    /\ result.val = <<"day is out of range for month">>

NoDup(phones) ==
    \A i, j \in 1..Len(phones) : phones[i] = phones[j] => i = j

\* C2: after any sequence of add_phone, remove_phone and edit_phone calls no
\* record holds the same normalized number twice.
C2_NoDuplicatePhones ==
    \A i \in 1..Len(book) : NoDup(book[i].phones)

\* C3: add-birthday on a contact that has a birthday returns the already-set
\* message, and a contact that has a birthday keeps that contact and that
\* birthday through every command.
C3_BirthdayKept ==
    [][ /\ \A i \in 1..Len(book) :
              book[i].birthday # <<>> =>
                  /\ book[i].name \in Names(book')
                  /\ book'[find(book', book[i].name)].birthday = book[i].birthday
        /\ ( /\ call'.op = "add-birthday"
             /\ Len(call'.args) >= 2
             /\ call'.args[1] \in Names(book)
             /\ book[find(book, call'.args[1])].birthday # <<>> )
           => result'.val = MsgBirthdaySet
      ]_vars

\* C3's case: add-birthday with another valid date on a contact that has a
\* birthday, refused
C3_Witness ==
    /\ call.op = "add-birthday"
    /\ Len(call.args) >= 2
    /\ result.val = MsgBirthdaySet
    /\ Birthday(call.args[2]).exc = "none"
    /\ book[find(book, call.args[1])].birthday # <<Birthday(call.args[2]).field>>

\* the command is add-birthday(name, date) with a name the book does not hold
AddBirthdayOnMissing ==
    /\ call'.op = "add-birthday"
    /\ Len(call'.args) >= 2
    /\ call'.args[1] \notin Names(book)

\* C4 as stated: add-birthday on a name that is no key of the directory leaves
\* the set of contact names as it was.
C4_NamesUnchanged ==
    [][AddBirthdayOnMissing => Names(book') = Names(book)]_vars

\* C4 as amended: add-birthday on a name that is no key of the directory appends
\* a contact of that name with no phones; its birthday is the given date,
\* normalized, and the command returns "Birthday added." when the date is valid,
\* and it has no birthday and the command returns the date-format message when
\* it is not; the contacts the directory held are unchanged.
C4_ContactCreated ==
    [][AddBirthdayOnMissing =>
          LET name == call'.args[1]
              b    == Birthday(call'.args[2])
          IN  /\ Names(book') = Names(book) \cup {name}
              /\ book' = Append(book,
                                [name |-> name, phones |-> <<>>,
                                 birthday |-> IF b.exc = "none" THEN <<b.field>> ELSE <<>>])
              /\ result'.val = IF b.exc = "none" THEN <<"Birthday added.">> ELSE MsgDateFormat
      ]_vars

\* C4's case: add-birthday has returned "Birthday added." for the second contact
\* of the book, which has that birthday and no phone
C4_Witness ==
    /\ call.op = "add-birthday"
    /\ Len(call.args) >= 2
    /\ result.val = <<"Birthday added.">>
    /\ Len(book) = 2
    /\ book[2].name = call.args[1]
    /\ book[2].phones = <<>>
    /\ book[2].birthday = <<Birthday(call.args[2]).field>>
    /\ book[1].phones # <<>>

\* the month and day b in today's year, or in the next year when that day lies
\* before today
Occurrence(b, today) ==
    IF b.m < today.m \/ (b.m = today.m /\ b.d < today.d)
    THEN MkDate(today.y + 1, b.m, b.d)
    ELSE MkDate(today.y, b.m, b.d)

\* the occurrence of b lies in [today, today + (days - 1)]
InWindow(b, today, days) ==
    LET occ == Occurrence(b, today)
    IN  /\ ToOrdinal(today) <= ToOrdinal(occ)
        /\ ToOrdinal(occ) <= ToOrdinal(today) + (days - 1)

\* C5: get_upcoming_birthdays(days) completes for every book, today and
\* days >= 1, and has an entry for a record exactly when the record has a
\* birthday whose occurrence lies in the window, a leap-day birthday included.
C5_UpcomingWindow ==
    call.op = "AddressBook.get_upcoming_birthdays" =>
        /\ result.exc = "none"
        /\ \A i \in 1..Len(book) :
               (\E k \in 1..Len(result.list) : result.list[k].name = book[i].name)
                   <=> ( /\ book[i].birthday # <<>>
                         /\ InWindow(book[i].birthday[1].date, call.today, call.days) )

\* the days a greeting is moved by: 2 from a Saturday, 1 from a Sunday
ShiftOf(occ) ==
    IF (ToOrdinal(occ) + 6) % 7 = 5 THEN 2
    ELSE IF (ToOrdinal(occ) + 6) % 7 = 6 THEN 1
    ELSE 0

\* C6: every entry get_upcoming_birthdays returns carries the occurrence moved
\* by 2 days from a Saturday, by 1 day from a Sunday and not at all otherwise, so
\* no greeting date is a Saturday or a Sunday; and with today = 01.01.2025 and
\* the one contact Ann born 05.01.1990, get_upcoming_birthdays(7) is the one
\* entry for Ann on 06.01.2025.
C6_WeekendShift ==
    (call.op = "AddressBook.get_upcoming_birthdays" /\ result.exc = "none") =>
        /\ \A k \in 1..Len(result.list) :
               LET e   == result.list[k]
                   rec == book[find(book, e.name)]
                   occ == Occurrence(rec.birthday[1].date, call.today)
                   g   == strptime(e.birthday).date
               IN  /\ e.name \in Names(book)
                   /\ rec.birthday # <<>>
                   /\ ToOrdinal(g) = ToOrdinal(occ) + ShiftOf(occ)
                   /\ e.birthday = strftime(g)
                   /\ (ToOrdinal(g) + 6) % 7 \notin {5, 6}
                   /\ (ShiftOf(occ) # 0 => (ToOrdinal(g) + 6) % 7 = 0)
        /\ ( /\ call.today = MkDate(2025, 1, 1)
             /\ call.days = 7
             /\ Len(book) = 1
             /\ book[1].name = Ann
             /\ book[1].birthday # <<>>
             /\ book[1].birthday[1].date = MkDate(1990, 1, 5) )
           => result.list =
                  << [name |-> Ann,
                      birthday |-> <<"0", "6", ".", "0", "1", ".", "2", "0", "2", "5">>] >>

\* C6's case: a window that holds a Saturday occurrence and a Sunday occurrence,
\* both reported on the Monday behind them
C6_Witness ==
    /\ call.op = "AddressBook.get_upcoming_birthdays"
    /\ call.today = MkDate(2025, 1, 1)
    /\ call.days = 7
    /\ Len(book) = 2
    /\ book[1].birthday # <<>> /\ book[1].birthday[1].date = MkDate(1990, 1, 5)
    /\ book[2].birthday # <<>> /\ book[2].birthday[1].date = MkDate(2000, 1, 4)
    /\ Len(result.list) = 2
    /\ result.list[1].birthday = result.list[2].birthday

\* C7: add_phone of a valid number a second time, in the same or another
\* spelling of the same digits, does not fail and leaves the record's phone list
\* as the first add left it.
C7_AddPhoneIdempotent ==
    track.stage = 2 =>
        /\ result.exc = "none"
        /\ track.name \in Names(book)
        /\ book[find(book, track.name)].phones = track.snap

\* C7's case: the second add, spelled differently from the stored digits, on a
\* record that holds another number too
C7_Witness ==
    /\ track.stage = 2
    /\ call.op = "Record.add_phone"
    /\ call.args[2] # track.p1
    /\ Len(track.snap) >= 2

\* what the scripted commands have returned, stage by stage
ScenarioResults ==
    call # Idle =>
        /\ track.stage = 1 => result.val = <<"Contact added.">>
        /\ track.stage = 2 => result.val = track.p1
        /\ track.stage = 3 => result.val = <<"Phone changed.">>
        /\ track.stage = 4 => result.val = track.p2

\* C8: add(name, p1); phone(name); change(name, p1, p2); phone(name) on a book
\* without name returns "Contact added.", p1, "Phone changed." and p2; and a
\* change that succeeds puts the new number in the place of an entry equal to
\* the old one and leaves everything else of the book as it was.
C8_ChangeReplaces ==
    [][ /\ ScenarioResults'
        /\ (call'.op = "change" /\ result'.val = <<"Phone changed.">>) =>
              /\ Len(call'.args) >= 3
              /\ call'.args[1] \in Names(book)
              /\ LET i   == find(book, call'.args[1])
                     old == SelectSeq(call'.args[2], isdigit)
                     new == SelectSeq(call'.args[3], isdigit)
                 IN  \E k \in 1..Len(book[i].phones) :
                        /\ book[i].phones[k] = old
                        /\ book' = [book EXCEPT ![i].phones[k] = new]
      ]_vars

\* C8's case: the four commands are through, the contact has another number
\* than the one it was added with
C8_Witness ==
    /\ track.stage = 4
    /\ call.op = "phone"
    /\ track.p1 # track.p2
    /\ result.val = track.p2

\* the arguments a command reads
Needs(op) == IF op = "change" THEN 3 ELSE 1

\* C9: change, phone and show-birthday on a name that is no key of the
\* directory return the contact-not-found message and leave the directory as it
\* was.
C9_MissingContact ==
    [][ ( /\ call'.op \in {"change", "phone", "show-birthday"}
          /\ Len(call'.args) >= Needs(call'.op)
          /\ call'.args[1] \notin Names(book) )
        => /\ result'.exc = "none"
           /\ result'.val = NotFoundText
           /\ book' = book
      ]_vars

\* C9's case: change on a missing name, with phones that are not valid, in a
\* book that holds another contact
C9_Witness ==
    /\ call.op = "change"
    /\ Len(call.args) >= 3
    /\ call.args[1] \notin Names(book)
    /\ Phone(call.args[2]).exc # "none"
    /\ book # <<>>
    /\ result.val = NotFoundText

\* the command c has returned something else than its success string
Failed(c, r, bk) ==
    \/ c.op = "add" /\ r.val \notin {<<"Contact added.">>, <<"Contact updated.">>}
    \/ c.op = "change" /\ r.val # <<"Phone changed.">>
    \/ c.op = "add-birthday" /\ r.val # <<"Birthday added.">>
    \/ /\ c.op \in {"phone", "show-birthday"}
       /\ (Len(c.args) < 1 \/ c.args[1] \notin Names(bk))

\* C10: a command that returns an error message leaves the directory as it was.
C10_FailedCommandsAtomic ==
    [][Failed(call', result', book) => book' = book]_vars

====
